---------------------------- MODULE Spec2Model ----------------------------
(***************************************************************************)
(* A model of query.py, the lookup and search tool over verse records      *)
(* kept in a JSON file or an SQLite database.                              *)
(*                                                                         *)
(* Representation.  A Python str is a sequence of one-character strings    *)
(* (<<"a", " ", "1">> is "a 1").  A Python value that is an int or None is *)
(* a sequence of length at most one: None is <<>> and the int n is <<n>>,  *)
(* written Some(n).  A Python list or tuple is a sequence.                 *)
(***************************************************************************)
EXTENDS Integers, Sequences, FiniteSets, TLC

VARIABLES
    pc,         \* position of the running command or function
    command,    \* "lookup" or "search" (or the function a harness applies)
    filename,   \* suffix of the FILENAME argument: "json" or "sqlite"
    source,     \* the verse records stored in FILENAME, in stored order
    key,        \* KEY argument of lookup / argument of split_key
    keywords,   \* KEYWORDS argument of search / of render_plain
    output,     \* value of --output
    handles,    \* file and database handles that are open
    result,     \* rows returned by the backend adapter
    stdout,     \* what has been written to standard output
    status,     \* process exit status, None while running
    query,      \* the query string search builds / argument of search_json
    raised,     \* the exception that ended the command, None if none
    ret         \* return value of the function a harness applies

vars == <<pc, command, filename, source, key, keywords, output, handles,
          result, stdout, status, query, raised, ret>>

-----------------------------------------------------------------------------
(* Python values *)

None == <<>>
Some(n) == <<n>>

\* Python truthiness of an int-or-None value: None and 0 are false.
Truthy(x) == x # None /\ x # Some(0)

Max(S) == CHOOSE x \in S : \A y \in S : y <= x

-----------------------------------------------------------------------------
(* Characters *)

Digits == {"0", "1", "2", "3", "4", "5", "6", "7", "8", "9"}
Space == {" "}
Colon == {":"}
Whitespace == {" ", "\t", "\n"}

DigitValue == ("0" :> 0) @@ ("1" :> 1) @@ ("2" :> 2) @@ ("3" :> 3) @@ ("4" :> 4)
              @@ ("5" :> 5) @@ ("6" :> 6) @@ ("7" :> 7) @@ ("8" :> 8) @@ ("9" :> 9)

\* int(str) of a non-empty string of decimal digits
RECURSIVE int(_)
int(ds) ==
    IF ds = <<>> THEN 0
    ELSE int(SubSeq(ds, 1, Len(ds) - 1)) * 10 + DigitValue[ds[Len(ds)]]

\* All strings over alphabet A of length at most n
Strings(A, n) == UNION {[1..k -> A] : k \in 0..n}

-----------------------------------------------------------------------------
(* Key regexps.  A match is the tuple of the end positions of the pattern's *)
(* pieces; re.match anchors at the start of the string only.  Every        *)
(* quantifier is greedy, so the backtracking matcher returns the match     *)
(* whose pieces are longest, the earlier piece deciding first.             *)

\* c is in the character class: "[^:]", " ", "\d", or "\S" (not whitespace)
InClass(c, class) ==
    CASE class = "[^:]" -> c \notin Colon
      [] class = " "    -> c \in Space
      [] class = "\\d"  -> c \in Digits
      [] class = "\\S"  -> c \notin Whitespace

\* The end positions e of the non-empty runs s[from..e] of characters of
\* the class: what "class+" can match starting at from.
Runs(s, from, class) ==
    {e \in from..Len(s) : \A j \in from..e : InClass(s[j], class)}

\* The preferred match of a set of matches: greedy quantifiers, leftmost first.
RECURSIVE Greedy(_)
Greedy(M) ==
    LET first == Max({m[1] : m \in M})
        rest  == {Tail(m) : m \in {x \in M : x[1] = first}}
    IN  IF rest = {<<>>} THEN <<first>> ELSE <<first>> \o Greedy(rest)

\* ([^:]+) +(\d):(\d+), the chapter group without its "+"
KEY_BOOK_CHAPTER_VERSE_REGEXP_OneDigit(s) ==
    UNION { UNION { UNION {
        { <<b, sp, c, v>> : v \in IF c + 1 <= Len(s) /\ s[c + 1] = ":"
                                  THEN Runs(s, c + 2, "\\d") ELSE {} }
        : c \in Runs(s, sp + 1, "\\d") \cap {sp + 1} }
        : sp \in Runs(s, b + 1, " ") }
        : b \in Runs(s, 1, "[^:]") }

\* ([^:]+) +(\d+):(\d+)   matches <<end of group 1, end of spaces,
\*                                  end of group 2, end of group 3>>
KEY_BOOK_CHAPTER_VERSE_REGEXP(s) ==
    UNION { UNION { UNION {
        { <<b, sp, c, v>> : v \in IF c + 1 <= Len(s) /\ s[c + 1] = ":"
                                  THEN Runs(s, c + 2, "\\d") ELSE {} }
        : c \in Runs(s, sp + 1, "\\d") }
        : sp \in Runs(s, b + 1, " ") }
        : b \in Runs(s, 1, "[^:]") }

\* ([^:]+) +(\d+)   matches <<end of group 1, end of spaces, end of group 2>>
KEY_BOOK_CHAPTER_REGEXP(s) ==
    UNION { UNION {
        { <<b, sp, c>> : c \in Runs(s, sp + 1, "\\d") }
        : sp \in Runs(s, b + 1, " ") }
        : b \in Runs(s, 1, "[^:]") }

\* (.+), the book group admitting a colon
KEY_BOOK_REGEXP_AnyChar(s) ==
    { <<b>> : b \in 1..Len(s) }

\* ([^:]+)   matches <<end of group 1>>
KEY_BOOK_REGEXP(s) ==
    { <<b>> : b \in Runs(s, 1, "[^:]") }

\* split_key: the (book, chapter, verse) of a key, None when no pattern matches
split_key(k) ==
    IF KEY_BOOK_CHAPTER_VERSE_REGEXP(k) # {} THEN
        LET m == Greedy(KEY_BOOK_CHAPTER_VERSE_REGEXP(k))
        IN  << SubSeq(k, 1, m[1]),
               Some(int(SubSeq(k, m[2] + 1, m[3]))),
               Some(int(SubSeq(k, m[3] + 2, m[4]))) >>
    ELSE IF KEY_BOOK_CHAPTER_REGEXP(k) # {} THEN
        LET m == Greedy(KEY_BOOK_CHAPTER_REGEXP(k))
        IN  << SubSeq(k, 1, m[1]), Some(int(SubSeq(k, m[2] + 1, m[3]))), None >>
    ELSE IF KEY_BOOK_REGEXP(k) # {} THEN
        LET m == Greedy(KEY_BOOK_REGEXP(k))
        IN  << SubSeq(k, 1, m[1]), None, None >>
    ELSE None

-----------------------------------------------------------------------------
(* Keyword filter *)

FTS_OPERATORS == { <<"A", "N", "D">>, <<"O", "R">>, <<"N", "O", "T">> }

\* str.startswith
startswith(w, prefix) ==
    Len(w) >= Len(prefix) /\ SubSeq(w, 1, Len(prefix)) = prefix

\* The elements of a list, as set(list) holds them
Elements(list) == {list[i] : i \in DOMAIN list}

\* The orders in which iterating over a set can yield its elements.  The
\* iteration order of a set of str is not defined by the language (it follows
\* the hash values, which differ from one process to the next).
IterationOrders(S) ==
    {q \in [1..Cardinality(S) -> S] : \A i, j \in DOMAIN q : i # j => q[i] # q[j]}

\* filter_keywords with the test "-" in word in place of word.startswith("-")
filter_keywords_AnyMinus(kws) ==
    LET remaining == Elements(kws) \ FTS_OPERATORS
    IN  IterationOrders({word \in remaining :
                           ~ \E i \in DOMAIN word : word[i] = "-"})

\* filter_keywords: the lists it can return
filter_keywords(kws) ==
    LET remaining == Elements(kws) \ FTS_OPERATORS
    IN  IterationOrders({word \in remaining : ~startswith(word, <<"-">>)})

-----------------------------------------------------------------------------
(* Rendering *)

\* The escape sequences TERM.red and TERM.normal, each held as one element
\* of a string: no keyword of the model matches inside one.
TERM_red == "\\e[31m"
TERM_normal == "\\e[m"

\* COLORIZE_REPLACEMENT applied to a match: TERM.red + "\g<0>" + TERM.normal
COLORIZE_REPLACEMENT(match) == <<TERM_red>> \o match \o <<TERM_normal>>

\* re.IGNORECASE, the flag's integer value
IGNORECASE == 2

lower == ("A" :> "a") @@ ("B" :> "b") @@ ("C" :> "c")
casefold(c) == IF c \in DOMAIN lower THEN lower[c] ELSE c

\* pattern (a string of letters, taken literally) matches at the head of s
MatchesAt(pattern, s, flags) ==
    /\ Len(s) >= Len(pattern)
    /\ \A i \in DOMAIN pattern :
          IF (flags \div IGNORECASE) % 2 = 1
          THEN casefold(s[i]) = casefold(pattern[i])
          ELSE s[i] = pattern[i]

\* re.sub(pattern, repl, string, count, flags): the leftmost non-overlapping
\* matches are replaced, all of them when count is 0 and the first count of
\* them otherwise.  done is the number of replacements made so far.
RECURSIVE re_sub_from(_, _, _, _, _)
re_sub_from(pattern, s, count, flags, done) ==
    IF s = <<>> \/ (count # 0 /\ done >= count) THEN s
    ELSE IF MatchesAt(pattern, s, flags)
    THEN COLORIZE_REPLACEMENT(SubSeq(s, 1, Len(pattern)))
         \o re_sub_from(pattern, SubSeq(s, Len(pattern) + 1, Len(s)), count, flags, done + 1)
    ELSE <<Head(s)>> \o re_sub_from(pattern, Tail(s), count, flags, done)

re_sub(pattern, s, count, flags) == re_sub_from(pattern, s, count, flags, 0)

\* colorize_matches: line 188 passes re.IGNORECASE as the fourth positional
\* argument of re.sub, which is count; flags keeps its default, 0.
RECURSIVE colorize_matches(_, _)
colorize_matches(s, kws) ==
    IF kws = <<>> THEN s
    ELSE colorize_matches(re_sub(Head(kws), s, IGNORECASE, 0), Tail(kws))

DigitChar == [d \in 0..9 |-> CHOOSE c \in Digits : DigitValue[c] = d]

\* "%s" of a non-negative int
RECURSIVE str(_)
str(n) == IF n < 10 THEN <<DigitChar[n]>> ELSE str(n \div 10) \o <<DigitChar[n % 10]>>

\* What render_plain writes for one row with the filtered keywords kws: the
\* bold "book chapter:verse: " written without a newline, then the text.
PlainRow(row, kws) ==
    << [bold |-> TRUE,
        text |-> row.book \o <<" ">> \o str(row.chapter) \o <<":">>
                 \o str(row.verse) \o <<":", " ">>],
       [bold |-> FALSE,
        text |-> IF kws # <<>> THEN colorize_matches(row.text, kws) ELSE row.text] >>

RECURSIVE PlainRows(_, _)
PlainRows(rows, kws) ==
    IF rows = <<>> THEN <<>>
    ELSE PlainRow(Head(rows), kws) \o PlainRows(Tail(rows), kws)

\* render_plain: what it can write (the keywords are filtered first, and the
\* filtered list can come in any order)
render_plain(rows, kws) ==
    { PlainRows(rows, filtered) :
        filtered \in IF kws # <<>> THEN filter_keywords(kws) ELSE {kws} }

-----------------------------------------------------------------------------
(* Backend adapters.  verses is the content of FILENAME: what json.load      *)
(* returns, or the rows of the table verses.                               *)


\* str.split() without arguments: the maximal runs of non-whitespace
RECURSIVE split(_)
split(s) ==
    IF s = <<>> THEN <<>>
    ELSE IF Head(s) \in Whitespace THEN split(Tail(s))
    ELSE LET n == Max(Runs(s, 1, "\\S"))
         IN  <<SubSeq(s, 1, n)>> \o split(SubSeq(s, n + 1, Len(s)))

\* " ".join(words)
RECURSIVE join(_)
join(words) ==
    IF words = <<>> THEN <<>>
    ELSE IF Len(words) = 1 THEN words[1]
    ELSE words[1] \o <<" ">> \o join(Tail(words))

\* sub in s, letter case ignored
contains_IgnoreCase(sub, s) ==
    \E p \in 1..(Len(s) - Len(sub) + 1) :
        \A i \in DOMAIN sub : casefold(s[p + i - 1]) = casefold(sub[i])

\* sub in s, for two str
contains(sub, s) ==
    \E p \in 1..(Len(s) - Len(sub) + 1) : SubSeq(s, p, p + Len(sub) - 1) = sub

\* lookup_json, lines 75 and 82-95
lookup_json(verses, k) ==
    LET book    == split_key(k)[1]
        chapter == split_key(k)[2]
        verse   == split_key(k)[3]
        ByVerse(v)   == v.book = book /\ Some(v.chapter) = chapter /\ Some(v.verse) = verse
        ByChapter(v) == v.book = book /\ Some(v.chapter) = chapter
        ByBook(v)    == v.book = book
    IN  IF Truthy(verse) THEN SelectSeq(verses, ByVerse)
        ELSE IF Truthy(chapter) THEN SelectSeq(verses, ByChapter)
        ELSE SelectSeq(verses, ByBook)

\* lookup_sqlite, lines 100 and 108-115: the rows the SELECT that is run
\* returns, and no rows when no SELECT is run
lookup_sqlite(verses, k) ==
    LET book    == split_key(k)[1]
        chapter == split_key(k)[2]
        verse   == split_key(k)[3]
        SELECT_VERSE(v)   == v.book = book /\ Some(v.chapter) = chapter /\ Some(v.verse) = verse
        SELECT_CHAPTER(v) == v.book = book /\ Some(v.chapter) = chapter
        SELECT_BOOK(v)    == v.book = book
    IN  IF Truthy(verse) THEN SelectSeq(verses, SELECT_VERSE)
        ELSE IF Truthy(chapter) THEN SelectSeq(verses, SELECT_CHAPTER)
        ELSE IF book # <<>> THEN SelectSeq(verses, SELECT_BOOK)
        ELSE <<>>

\* search_json, lines 133-143, for the keywords of the split query
RECURSIVE search_json_loop(_, _)
search_json_loop(verses, words) ==
    IF verses = <<>> THEN <<>>
    ELSE LET v     == Head(verses)
             found == \A i \in DOMAIN words : contains(words[i], v.text)
         IN  (IF found THEN <<v>> ELSE <<>>) \o search_json_loop(Tail(verses), words)

search_json(verses, q) == search_json_loop(verses, split(q))

\* The rows of seq at the places in S, in order
RECURSIVE Pick(_, _)
Pick(seq, S) ==
    IF S = {} THEN <<>>
    ELSE Pick(seq, S \ {Max(S)}) \o <<seq[Max(S)]>>

\* search_sqlite: the rows "text MATCH ?" can return.  The full-text engine
\* of SQLite decides which rows match; here it may return any of the rows.
search_sqlite(verses, q) == {Pick(verses, S) : S \in SUBSET DOMAIN verses}

\* row_to_dict with the fields in the order of sqlite3.Row.keys() of a table
\* created as (text, book, chapter, verse)
row_to_dict_TableOrder(row) ==
    << <<"text", row.text>>, <<"book", row.book>>,
       <<"chapter", row.chapter>>, <<"verse", row.verse>> >>

\* row_to_dict: the members of the OrderedDict, in order
row_to_dict(row) ==
    << <<"book", row.book>>, <<"chapter", row.chapter>>,
       <<"verse", row.verse>>, <<"text", row.text>> >>

\* render_json: the JSON document printed, as the list of its objects (the
\* layout indent=2 gives the text is not modelled)
render_json(rows) == [i \in DOMAIN rows |-> row_to_dict(rows[i])]

-----------------------------------------------------------------------------
(* split_key applied to every key over a small alphabet *)

MaxKeyLen == 6
KeyAlphabet == {"a", " ", "0", "1", ":"}

InitKey ==
    /\ pc = "call"
    /\ command = "split_key"
    /\ key \in Strings(KeyAlphabet, MaxKeyLen)
    /\ filename = "none" /\ source = <<>> /\ keywords = <<>> /\ output = "none"
    /\ handles = {} /\ result = <<>> /\ stdout = <<>> /\ status = None
    /\ query = <<>> /\ raised = None /\ ret = None

SplitKey ==
    /\ pc = "call" /\ command = "split_key"
    /\ ret' = split_key(key)
    /\ pc' = "return"
    /\ UNCHANGED <<command, filename, source, key, keywords, output, handles,
                   result, stdout, status, query, raised>>

NextKey == SplitKey

SpecKey == InitKey /\ [][NextKey]_vars


-----------------------------------------------------------------------------
(* filter_keywords applied to token lists, and again to its own result as   *)
(* render_plain does with the keywords search has filtered                 *)

MaxTokens == 3
FilterTokens ==
    FTS_OPERATORS \cup
    { <<"a", "n", "d">>, <<"N", "o", "t">>, <<"O", "R", "B">>, <<"-", "O", "R">>,
      <<"-", "a">>, <<"-">>, <<"a", "-", "b">>, <<"a">>, <<"b">> }

InitFilter ==
    /\ pc = "call"
    /\ command = "filter_keywords"
    /\ keywords \in Strings(FilterTokens, MaxTokens)
    /\ filename = "none" /\ source = <<>> /\ key = <<>> /\ output = "none"
    /\ handles = {} /\ result = <<>> /\ stdout = <<>> /\ status = None
    /\ query = <<>> /\ raised = None /\ ret = None

FilterKeywords ==
    /\ pc = "call" /\ command = "filter_keywords"
    /\ ret' \in filter_keywords(keywords)
    /\ pc' = "return"
    /\ UNCHANGED <<command, filename, source, key, keywords, output, handles,
                   result, stdout, status, query, raised>>

\* render_plain line 164: keywords = filter_keywords(keywords)
FilterAgain ==
    /\ pc = "return" /\ command = "filter_keywords"
    /\ keywords' = ret
    /\ ret' \in filter_keywords(ret)
    /\ pc' = "refiltered"
    /\ UNCHANGED <<command, filename, source, key, output, handles,
                   result, stdout, status, query, raised>>

NextFilter == FilterKeywords \/ FilterAgain

SpecFilter == InitFilter /\ [][NextFilter]_vars

-----------------------------------------------------------------------------
(* render_plain applied to one row and a keyword list *)

MaxTextLen == 4
MaxKeywords == 2
TextAlphabet == {"a", "A", "b", "c"}
ColorKeywords == { <<"a">>, <<"b", "c">> }

InitColor ==
    /\ pc = "call"
    /\ command = "render_plain"
    /\ \E t \in Strings(TextAlphabet, MaxTextLen) :
          result = << [book |-> <<"a">>, chapter |-> 1, verse |-> 1, text |-> t] >>
    /\ keywords \in Strings(ColorKeywords, MaxKeywords)
    /\ filename = "none" /\ source = <<>> /\ key = <<>> /\ output = "plain"
    /\ handles = {} /\ stdout = <<>> /\ status = None
    /\ query = <<>> /\ raised = None /\ ret = None

RenderPlain ==
    /\ pc = "call" /\ command = "render_plain"
    /\ \E written \in render_plain(result, keywords) : stdout' = stdout \o written
    /\ pc' = "return"
    /\ UNCHANGED <<command, filename, source, key, keywords, output, handles,
                   result, status, query, raised, ret>>

NextColor == RenderPlain

SpecColor == InitColor /\ [][NextColor]_vars

-----------------------------------------------------------------------------
(* Sources: files of at most MaxVerses of these verse records, no two with   *)
(* the same book, chapter and verse                                        *)

MaxVerses == 2

Verses ==
    { [book |-> <<"a">>, chapter |-> 1, verse |-> 1, text |-> <<"a", "b">>],
      [book |-> <<"a">>, chapter |-> 1, verse |-> 2, text |-> <<"b", " ", "a">>],
      [book |-> <<"a">>, chapter |-> 2, verse |-> 1, text |-> <<"A", "b">>],
      [book |-> <<"b">>, chapter |-> 1, verse |-> 1, text |-> <<"b", "a">>],
      [book |-> <<"b">>, chapter |-> 2, verse |-> 2, text |-> <<"b">>] }

Sources ==
    {src \in Strings(Verses, MaxVerses) :
        \A i, j \in DOMAIN src : i # j => src[i] # src[j]}

-----------------------------------------------------------------------------
(* search_json applied to every source and every short query *)

MaxQueryLen == 3
QueryAlphabet == {"a", "b", " "}

InitSearch ==
    /\ pc = "call"
    /\ command = "search_json"
    /\ filename = "json"
    /\ source \in Sources
    /\ query \in Strings(QueryAlphabet, MaxQueryLen)
    /\ key = <<>> /\ keywords = <<>> /\ output = "none"
    /\ handles = {} /\ result = <<>> /\ stdout = <<>> /\ status = None
    /\ raised = None /\ ret = None

SearchJson ==
    /\ pc = "call" /\ command = "search_json"
    /\ ret' = search_json(source, query)
    /\ pc' = "return"
    /\ UNCHANGED <<command, filename, source, key, keywords, output, handles,
                   result, stdout, status, query, raised>>

NextSearch == SearchJson

SpecSearch == InitSearch /\ [][NextSearch]_vars

-----------------------------------------------------------------------------
(* The commands lookup and search, from the command line to the exit        *)

Outputs == {"plain", "json", "xml"}

KeyBooks == { <<"a">>, <<"b">>, <<"c">> }
KeyNumbers == { <<"0">>, <<"1">>, <<"2">>, <<"0", "1">> }

LookupKeys ==
    {b \o <<" ">> \o c \o <<":">> \o v : b \in KeyBooks, c \in KeyNumbers, v \in KeyNumbers}
    \cup {b \o <<" ">> \o c : b \in KeyBooks, c \in KeyNumbers}
    \cup KeyBooks
    \cup { <<>>, <<":", "1">> }

SearchKeywords ==
    { <<>>, << <<"a">> >>, << <<"a", "b">> >>, << <<"a">>, <<"b">> >>,
      << <<"b">>, <<"a">> >>, << <<"b", " ", "a">> >>, << <<"A">> >>,
      << <<"a">>, <<"O", "R">>, <<"c">> >>, << <<"b">>, <<"-", "a">> >>,
      << <<"c">> >> }

Init ==
    /\ pc = "start"
    /\ command \in {"lookup", "search"}
    /\ filename \in {"json", "sqlite"}
    /\ source \in Sources
    /\ output \in Outputs
    /\ key \in IF command = "lookup" THEN LookupKeys ELSE { <<>> }
    /\ keywords \in IF command = "search" THEN SearchKeywords ELSE { <<>> }
    /\ handles = {} /\ result = <<>> /\ stdout = <<>> /\ status = None
    /\ query = <<>> /\ raised = None /\ ret = None

\* What the adapter opens: the file (line 78, 129), or the connection and
\* its cursor (lines 103-104, 149-150)
Opened == IF filename = "json" THEN {"file"} ELSE {"connection", "cursor"}

\* An exception no handler catches ends the process with status 1
Crash(kind) ==
    /\ raised' = <<kind, <<>>>>
    /\ status' = Some(1)
    /\ pc' = "exit"

\* click.UsageError: the message is shown and the process exits with status 2
UsageError(message) ==
    /\ raised' = <<"UsageError", message>>
    /\ status' = Some(2)
    /\ pc' = "exit"

\* lookup_json lines 75-78, lookup_sqlite lines 100-105: the key is split
\* (unpacking None raises TypeError) and the source is opened
LookupOpen ==
    /\ pc = "start" /\ command = "lookup"
    /\ IF split_key(key) = None
       THEN Crash("TypeError") /\ UNCHANGED handles
       ELSE handles' = Opened /\ pc' = "opened" /\ UNCHANGED <<raised, status>>
    /\ UNCHANGED <<command, filename, source, key, keywords, output,
                   result, stdout, query, ret>>

\* lookup_json lines 79-95 (the with block ends and closes the file, then
\* the verses are filtered); lookup_sqlite lines 108-115 (nothing is closed)
LookupQuery ==
    /\ pc = "opened" /\ command = "lookup"
    /\ IF filename = "json"
       THEN result' = lookup_json(source, key) /\ handles' = {}
       ELSE result' = lookup_sqlite(source, key) /\ UNCHANGED handles
    /\ pc' = "render"
    /\ UNCHANGED <<command, filename, source, key, keywords, output,
                   stdout, status, query, raised, ret>>

\* search lines 264-267, then the source is opened (line 129, or 149-151)
SearchOpen ==
    /\ pc = "start" /\ command = "search"
    /\ query' = join(keywords)
    /\ keywords' \in filter_keywords(split(join(keywords)))
    /\ handles' = Opened
    /\ pc' = "opened"
    /\ UNCHANGED <<command, filename, source, key, output,
                   result, stdout, status, raised, ret>>

\* search_json lines 130-143; search_sqlite lines 154-156, where execute can
\* raise sqlite3.OperationalError (a query that is not a MATCH expression)
SearchQuery ==
    /\ pc = "opened" /\ command = "search"
    /\ \/ /\ filename = "json"
          /\ result' = search_json(source, query) /\ handles' = {}
          /\ pc' = "render"
          /\ UNCHANGED <<status, raised>>
       \/ /\ filename = "sqlite"
          /\ result' \in search_sqlite(source, query)
          /\ pc' = "render"
          /\ UNCHANGED <<handles, status, raised>>
       \/ /\ filename = "sqlite"
          /\ Crash("OperationalError")
          /\ UNCHANGED <<handles, result>>
    /\ UNCHANGED <<command, filename, source, key, keywords, output,
                   stdout, query, ret>>

NotFound == <<" ", "n", "o", "t", " ", "f", "o", "u", "n", "d">>
NoMatches == <<"N", "o", " ", "m", "a", "t", "c", "h", "e", "s", " ", "f", "o",
               "u", "n", "d", " ", "f", "o", "r", ":", " ">>

\* lookup lines 244-252, search lines 278-285
Render ==
    /\ pc = "render"
    /\ IF result # <<>>
       THEN /\ \/ /\ output = "plain"
                  /\ \E written \in render_plain(result, keywords) :
                        stdout' = stdout \o written
               \/ /\ output = "json"
                  /\ stdout' = Append(stdout, render_json(result))
               \/ /\ output \notin {"plain", "json"}
                  /\ UNCHANGED stdout
            /\ status' = Some(0)
            /\ pc' = "exit"
            /\ UNCHANGED raised
       ELSE /\ UsageError(IF command = "lookup" THEN key \o NotFound
                          ELSE NoMatches \o query)
            /\ UNCHANGED stdout
    /\ UNCHANGED <<command, filename, source, key, keywords, output, handles,
                   result, query, ret>>

\* The connection and the cursor are closed by no statement of the program:
\* they are released when the objects are reclaimed, at a moment the
\* language leaves to the implementation, any time after the adapter returns.
Finalize ==
    /\ pc \in {"render", "exit"}
    /\ handles # {}
    /\ handles' = {}
    /\ UNCHANGED <<pc, command, filename, source, key, keywords, output,
                   result, stdout, status, query, raised, ret>>

Next ==
    \/ LookupOpen \/ LookupQuery
    \/ SearchOpen \/ SearchQuery
    \/ Render
    \/ Finalize

Spec == Init /\ [][Next]_vars

-----------------------------------------------------------------------------
(* The forms of a key, stated on the key's text alone *)

\* The value of a string of decimal digits, most significant digit first
RECURSIVE Decimal(_)
Decimal(ds) ==
    IF ds = <<>> THEN 0
    ELSE DigitValue[Head(ds)] * 10 ^ (Len(ds) - 1) + Decimal(Tail(ds))

IsBookName(b) == b # <<>> /\ \A i \in 1..Len(b) : b[i] # ":"
IsNumber(d) == d # <<>> /\ \A i \in 1..Len(d) : d[i] \in Digits

\* k = Book C:V with Book = k[1..i], C = k[i+2..j], V = k[j+2..]
BookChapterVerseForms(k) ==
    {f \in (1..Len(k)) \X (1..Len(k)) :
        /\ IsBookName(SubSeq(k, 1, f[1]))
        /\ f[1] + 1 <= Len(k) /\ k[f[1] + 1] = " "
        /\ IsNumber(SubSeq(k, f[1] + 2, f[2]))
        /\ f[2] + 1 <= Len(k) /\ k[f[2] + 1] = ":"
        /\ IsNumber(SubSeq(k, f[2] + 2, Len(k)))}

\* k = Book C with Book = k[1..i], C = k[i+2..]
BookChapterForms(k) ==
    {i \in 1..Len(k) :
        /\ IsBookName(SubSeq(k, 1, i))
        /\ i + 1 <= Len(k) /\ k[i + 1] = " "
        /\ IsNumber(SubSeq(k, i + 2, Len(k)))}

\* Some prefix of k has the form Book C
HasBookChapterPrefix(k) ==
    \E n \in 1..Len(k) : BookChapterForms(SubSeq(k, 1, n)) # {}

SplitsBookChapterVerse ==
    \A f \in BookChapterVerseForms(key) :
        ret = << SubSeq(key, 1, f[1]),
                 Some(Decimal(SubSeq(key, f[1] + 2, f[2]))),
                 Some(Decimal(SubSeq(key, f[2] + 2, Len(key)))) >>

SplitsBookChapter ==
    \A i \in BookChapterForms(key) :
        ret = << SubSeq(key, 1, i), Some(Decimal(SubSeq(key, i + 2, Len(key)))), None >>

C8_NoMatchOnlyForEmpty ==
    pc = "return" => (ret = None <=> key = <<>>)

\* C8 (amended): split_key matches nothing exactly for the empty key and for
\* the keys that begin with a colon.
C8_NoMatchIffEmptyOrLeadingColon ==
    pc = "return" => (ret = None <=> (key = <<>> \/ Head(key) = ":"))

\* split_key has returned None for a non-empty key that begins with a colon.
C8_Witness ==
    pc = "return" /\ key # <<>> /\ Head(key) = ":" /\ ret = None

-----------------------------------------------------------------------------
(* Claims about filter_keywords *)

IsOperatorToken(t) ==
    t \in { <<"A", "N", "D">>, <<"O", "R">>, <<"N", "O", "T">> }
IsNegated(t) == t # <<>> /\ Head(t) = "-"
Survives(t) == ~IsOperatorToken(t) /\ ~IsNegated(t)

\* C5: filter_keywords removes exactly the tokens AND, OR, NOT and the tokens
\* whose first character is "-", keeps every other token, and applied to its
\* own result returns the same set of tokens.
C5_FilterRemovesExactly ==
    /\ pc = "return" => Elements(ret) = {t \in Elements(keywords) : Survives(t)}
    /\ pc = "refiltered" => Elements(ret) = Elements(keywords)

\* filter_keywords has been applied again to a result of two tokens, one of
\* them with a "-" that is not its first character.
C5_Witness ==
    /\ pc = "refiltered"
    /\ <<"a", "-", "b">> \in Elements(ret)
    /\ Len(ret) = 2

\* The tokens of a list in the order of their first occurrence
RECURSIVE FirstOccurrences(_)
FirstOccurrences(list) ==
    IF list = <<>> THEN <<>>
    ELSE LET front == FirstOccurrences(SubSeq(list, 1, Len(list) - 1))
             last  == list[Len(list)]
         IN  IF last \in Elements(front) THEN front ELSE Append(front, last)

\* C9: the tokens filter_keywords returns are the surviving tokens in their
\* input order, the same sequence every time for the same input.
C9_FilterKeepsInputOrder ==
    pc = "return" => ret = FirstOccurrences(SelectSeq(keywords, Survives))

-----------------------------------------------------------------------------
(* Claims about highlighting *)

IsMarker(c) == c \in {TERM_red, TERM_normal}
IsText(c) == ~IsMarker(c)

\* For each character of a highlighted string that is not a marker, in
\* order, the number of start markers before it that are not yet ended
RECURSIVE Depths(_, _)
Depths(s, depth) ==
    IF s = <<>> THEN <<>>
    ELSE IF Head(s) = TERM_red THEN Depths(Tail(s), depth + 1)
    ELSE IF Head(s) = TERM_normal THEN Depths(Tail(s), depth - 1)
    ELSE <<depth>> \o Depths(Tail(s), depth)

\* The places of text at which kw occurs, letter case ignored
Occurrences(kw, text) ==
    {p \in 1..(Len(text) - Len(kw) + 1) :
        \A i \in DOMAIN kw : casefold(text[p + i - 1]) = casefold(kw[i])}

\* C2: render_plain with keywords wraps every occurrence of each keyword in
\* the text, whatever its letter case and however many there are, in the
\* start and end markers, and the output without the markers is the text.
C2_HighlightsEveryOccurrence ==
    (pc = "return" /\ command = "render_plain" /\ keywords # <<>>) =>
        LET text == result[1].text
            out  == stdout[2].text
        IN  /\ SelectSeq(out, IsText) = text
            /\ \A kw \in Elements(keywords) : \A p \in Occurrences(kw, text) :
                  \A i \in p..(p + Len(kw) - 1) : Depths(out, 0)[i] >= 1

-----------------------------------------------------------------------------
(* Claims about search_json *)

\* The whitespace-separated tokens of q
TokensOf(q) ==
    { SubSeq(q, r[1], r[2]) :
        r \in {r \in (1..Len(q)) \X (1..Len(q)) :
                 /\ r[1] <= r[2]
                 /\ \A k \in r[1]..r[2] : q[k] # " "
                 /\ (r[1] = 1 \/ q[r[1] - 1] = " ")
                 /\ (r[2] = Len(q) \/ q[r[2] + 1] = " ")} }

IsSubstring(t, text) ==
    \E i \in 1..(Len(text) + 1) : \E j \in (i - 1)..Len(text) : SubSeq(text, i, j) = t

ContainsEveryToken(v) == \A t \in TokensOf(query) : IsSubstring(t, v.text)

\* C6: search_json returns, in source order, exactly the records whose text
\* contains every whitespace-separated token of the query as a case-sensitive
\* literal substring, and nothing when no record does.
C6_SearchJsonEveryToken ==
    (pc = "return" /\ command = "search_json") =>
        ret = SelectSeq(source, ContainsEveryToken)

\* A query of two tokens has matched one of the two records of the source.
C6_Witness ==
    /\ pc = "return" /\ command = "search_json"
    /\ Cardinality(TokensOf(query)) = 2
    /\ Len(source) = 2 /\ Len(ret) = 1

-----------------------------------------------------------------------------
(* Claims about the commands *)

\* The adapter has returned its rows to the command
AdapterReturned ==
    /\ pc \in {"render", "exit"}
    /\ (raised = None \/ raised[1] = "UsageError")

\* C1: for a key "Book C:V", lookup_json and lookup_sqlite return the single
\* record whose book, chapter and verse are Book, C and V, or nothing: no
\* returned record has another book, chapter or verse.
C1_LookupReturnsRequestedVerse ==
    (command = "lookup" /\ AdapterReturned) =>
        \A f \in BookChapterVerseForms(key) :
            /\ Len(result) <= 1
            /\ \A i \in DOMAIN result :
                  /\ result[i].book = SubSeq(key, 1, f[1])
                  /\ result[i].chapter = Decimal(SubSeq(key, f[1] + 2, f[2]))
                  /\ result[i].verse = Decimal(SubSeq(key, f[2] + 2, Len(key)))

\* C3: for every value of --output, a command whose adapter returned no rows
\* raises a UsageError naming the key or the query, writes nothing and exits
\* non-zero; one whose adapter returned rows renders them and exits with 0.
\* Hence the exit status is 0 only when something was rendered.
C3_ExitStatusFollowsResult ==
    (pc = "exit" /\ AdapterReturned) =>
        /\ result = <<>> =>
              /\ raised # None /\ raised[1] = "UsageError"
              /\ IsSubstring(IF command = "lookup" THEN key ELSE query, raised[2])
              /\ stdout = <<>>
              /\ status # Some(0)
        /\ result # <<>> =>
              /\ raised = None
              /\ stdout # <<>>
              /\ status = Some(0)
        /\ status = Some(0) => stdout # <<>>

\* The names of the members of a JSON object, in order
MemberNames(object) == [m \in DOMAIN object |-> object[m][1]]

\* C7: render_json of N records emits an array of N objects in the order of
\* the records, each with exactly the members book, chapter, verse, text in
\* that order and with the record's values, whichever adapter gave the rows.
C7_JsonArrayOfRecords ==
    (pc = "exit" /\ output = "json" /\ raised = None /\ result # <<>>) =>
        /\ Len(stdout) = 1
        /\ Len(stdout[1]) = Len(result)
        /\ \A i \in DOMAIN result :
              /\ MemberNames(stdout[1][i]) = <<"book", "chapter", "verse", "text">>
              /\ stdout[1][i][1][2] = result[i].book
              /\ stdout[1][i][2][2] = result[i].chapter
              /\ stdout[1][i][3][2] = result[i].verse
              /\ stdout[1][i][4][2] = result[i].text

\* Two rows of an SQLite database have been rendered with --output json.
C7_Witness ==
    /\ pc = "exit" /\ output = "json" /\ filename = "sqlite"
    /\ Len(result) = 2 /\ Len(stdout) = 1

\* C10: every handle the adapter opened is released before the first record
\* is rendered: no handle is open in the step that writes the records.
C10_HandlesReleasedBeforeRender ==
    [][(pc = "render" /\ stdout' # stdout) => handles = {}]_vars

=============================================================================
